---------------------------- MODULE Spec2Model ----------------------------
(***************************************************************************)
(* Model of the sprite-set codec of src/src/lib.rs: SprSet::from_reader    *)
(* (the binrw readers and the name / image loops) and SprSet::to_writer    *)
(* (the back-patching writer), over byte streams.                          *)
(*                                                                         *)
(* A stream is a sequence of bytes (0..255); stream positions are 0-based, *)
(* so the byte at position p is b[p+1].  Integers are little-endian, as on *)
(* the targets the crate is built for (read_ne / write_ne).                *)
(* An f32 is carried as its 32-bit pattern: write_ne / read_ne move the    *)
(* bits unchanged.                                                         *)
(***************************************************************************)
EXTENDS Integers, Sequences, FiniteSets, TLC

(***************************************************************************)
(* Bounds of the model.                                                    *)
(***************************************************************************)
\* largest mip_levels byte tried in a synthetic cube-map entry
MaxMipLevels == 8
\* most sprites of a SprSet handed to to_writer
MaxSprites == 2
\* most textures of a SprSet handed to to_writer
MaxTextures == 2
\* largest count word tried in a synthetic container
MaxCount == 2

Min(a, b) == IF a < b THEN a ELSE b
Max(a, b) == IF a > b THEN a ELSE b

(***************************************************************************)
(* Bytes and words.                                                        *)
(***************************************************************************)
\* write_ne of a u32 (little-endian); n < 2^31 in every run of the model
LE32(n) ==
  << n % 256, (n \div 256) % 256, (n \div 65536) % 256, (n \div 16777216) % 256 >>

\* write_ne of an i32: two's complement; -1 is ff ff ff ff
LEI32(n) == IF n < 0 THEN << 255, 255, 255, 255 >> ELSE LE32(n)

InRange(b, p, n) == p >= 0 /\ n >= 0 /\ p + n <= Len(b)

Slice(b, p, n) == SubSeq(b, p + 1, p + n)

\* a word whose top byte is >= 128 does not fit TLC's integers: it is read as
\* -1, which is no valid count, offset, format or screen mode below 2^31
U32(b, p) ==
  IF b[p + 4] >= 128 THEN -1
  ELSE b[p + 1] + 256 * b[p + 2] + 65536 * b[p + 3] + 16777216 * b[p + 4]

MagicTexSet == << 84, 88, 80, 3 >>
MagicTex2d == << 84, 88, 80, 4 >>
MagicTexCubeMap == << 84, 88, 80, 5 >>
MagicMipMap == << 84, 88, 80, 2 >>

(***************************************************************************)
(* enum TextureFormat (#[br(repr = u32)]) and the DXGI table.              *)
(***************************************************************************)
TextureFormatCodes == { -1, 0, 1, 2, 3, 4, 5, 6, 7, 8, 9, 10, 11, 12, 13, 15, 127 }

\* the u32 a format is read from: Unknown = -1 is ff ff ff ff
FormatBytes(c) == LEI32(c)

\* the inverse on the wire: the code of a 4-byte word, or "bad"
FormatOfBytes(w) ==
  IF w = << 255, 255, 255, 255 >> THEN -1
  ELSE IF w[2] = 0 /\ w[3] = 0 /\ w[4] = 0 /\ w[1] \in TextureFormatCodes THEN w[1]
  ELSE -2

to_dxgi_format(c) ==
  CASE c = 0 -> "R8_UNorm"
    [] c = 2 -> "R8G8B8A8_UNorm"
    [] c = 6 -> "BC1_UNorm"
    [] c = 7 -> "BC1_UNorm"
    [] c = 8 -> "BC2_UNorm_sRGB"
    [] c = 9 -> "BC3_UNorm"
    [] c = 10 -> "BC4_UNorm"
    [] c = 11 -> "BC5_UNorm"
    [] c = 12 -> "A8_UNorm"
    [] c = 13 -> "A8P8"
    [] c = 15 -> "BC7_UNorm"
    [] c = 127 -> "BC6H_UF16"
    [] OTHER -> "Unknown"

from_dxgi_format(f) ==
  CASE f = "R8_UNorm" -> 0
    [] f = "R8G8B8A8_UNorm" -> 2
    [] f = "BC1_UNorm" -> 6
    [] f = "BC2_UNorm_sRGB" -> 8
    [] f = "BC3_UNorm" -> 9
    [] f = "BC4_UNorm" -> 10
    [] f = "BC5_UNorm" -> 11
    [] f = "A8_UNorm" -> 12
    [] f = "A8P8" -> 13
    [] f = "BC7_UNorm" -> 15
    [] OTHER -> -1

\* enum ScreenMode: QVGA = 0 .. Custom = 18
ScreenModes == 0 .. 18

(***************************************************************************)
(* Names: byte strings.  String's Ord is the byte-wise lexicographic one.  *)
(***************************************************************************)
NameLess(a, b) ==
  \E k \in 0 .. Min(Len(a), Len(b)) :
    /\ \A j \in 1 .. k : a[j] = b[j]
    /\ \/ k = Len(a) /\ k < Len(b)
       \/ k < Len(a) /\ k < Len(b) /\ a[k + 1] < b[k + 1]


(***************************************************************************)
(* The binrw readers.  Each returns a record whose err field is "" on      *)
(* success; a failed read is "BinRead" (magic mismatch, read past the end, *)
(* a code outside an enum) and a division by zero is "Panic".              *)
(***************************************************************************)
Fail(kind) == [err |-> kind]

\* the first failure of a sequence of read results, in reading order
FirstErr(rs) ==
  IF \A i \in 1 .. Len(rs) : rs[i].err = "" THEN ""
  ELSE rs[CHOOSE i \in 1 .. Len(rs) :
            rs[i].err # "" /\ \A j \in 1 .. i - 1 : rs[j].err = ""].err

\* get_position: the stream position, here right after a magic at `at`
get_position(at) == at + 4

\* struct TexMipMapReader at absolute position q
TexMipMapReader(b, q) ==
  IF ~InRange(b, q, 24) THEN Fail("BinRead")
  ELSE IF Slice(b, q, 4) # MagicMipMap THEN Fail("BinRead")
  ELSE IF FormatOfBytes(Slice(b, q + 12, 4)) = -2 THEN Fail("BinRead")
  ELSE IF ~InRange(b, q + 24, U32(b, q + 20)) THEN Fail("BinRead")
  ELSE [err |-> "",
        width |-> U32(b, q + 4),
        height |-> U32(b, q + 8),
        format |-> FormatOfBytes(Slice(b, q + 12, 4)),
        index |-> b[q + 17],
        array_index |-> b[q + 18],
        data_size |-> U32(b, q + 20),
        data |-> Slice(b, q + 24, U32(b, q + 20))]

\* a chain reader with two levels of indirection: one FilePtr32 at `at` to a
\* list of mip_levels FilePtr32 fields
TexMipMapChainReader(b, at, mip_levels, position) ==
  IF ~InRange(b, at, 4) \/ U32(b, at) < 0 THEN Fail("BinRead")
  ELSE LET list == position + U32(b, at)
       IN  IF ~InRange(b, list, 4 * mip_levels) THEN Fail("BinRead")
           ELSE IF \E k \in 0 .. mip_levels - 1 : U32(b, list + 4 * k) < 0
           THEN Fail("BinRead")
           ELSE LET mips == [k \in 1 .. mip_levels |->
                               TexMipMapReader(b, position + U32(b, list + 4 * (k - 1)))]
                IN  IF FirstErr(mips) # "" THEN Fail(FirstErr(mips))
                    ELSE [err |-> "", mip_maps |-> mips]

\* struct TexMipMapArrayReader: mip_levels FilePtr32 fields read in line at
\* `at`, each resolved against the offset `position`
TexMipMapArrayReader(b, at, mip_levels, position) ==
  IF ~InRange(b, at, 4 * mip_levels) THEN Fail("BinRead")
  ELSE IF \E k \in 0 .. mip_levels - 1 : U32(b, at + 4 * k) < 0 THEN Fail("BinRead")
  ELSE LET mips == [k \in 1 .. mip_levels |->
                      TexMipMapReader(b, position + U32(b, at + 4 * (k - 1)))]
       IN  IF FirstErr(mips) # "" THEN Fail(FirstErr(mips))
           ELSE [err |-> "", mip_maps |-> mips]

\* a per-face mip count that rounds up instead of down
mip_levels_rounded_up(mip_levels, array_size) ==
  (mip_levels + array_size - 1) \div array_size

\* the per-face mip count of a cube map: #[br(calc = mip_levels / array_size)]
mip_levels_adjusted(mip_levels, array_size) == mip_levels \div array_size

\* the base of a texture entry's mip pointers: args { inner: (.., position - 4) }
MipOffset(position) == position - 4

\* enum TexReader at absolute position at: Tex2dReader or TexCubeMapReader
TexReader(b, at) ==
  IF ~InRange(b, at, 4) THEN Fail("BinRead")
  ELSE IF Slice(b, at, 4) \notin {MagicTex2d, MagicTexCubeMap} THEN Fail("BinRead")
  ELSE IF ~InRange(b, at + 4, 8) THEN Fail("BinRead")
  ELSE
    LET kind == IF Slice(b, at, 4) = MagicTex2d THEN "Tex2d" ELSE "TexCubeMap"
        position == get_position(at)
        mip_levels == b[at + 9]
        array_size == b[at + 10]
    IN  IF kind = "TexCubeMap" /\ array_size = 0 THEN Fail("Panic")
        ELSE
          LET levels == IF kind = "Tex2d" THEN mip_levels
                        ELSE mip_levels_adjusted(mip_levels, array_size)
              arr == [f \in 1 .. array_size |->
                        TexMipMapArrayReader(b, at + 12 + 4 * levels * (f - 1),
                                             levels, MipOffset(position))]
          IN  IF ~InRange(b, at + 12, 4 * levels * array_size) THEN Fail("BinRead")
              ELSE IF FirstErr(arr) # "" THEN Fail(FirstErr(arr))
              ELSE [err |-> "",
                    kind |-> kind,
                    mip_maps |-> U32(b, at + 4),
                    mip_levels |-> mip_levels,
                    array_size |-> array_size,
                    depth |-> b[at + 11],
                    levels_read |-> levels,
                    mip_map_array |-> [f \in 1 .. array_size |-> arr[f].mip_maps]]

\* the base of the texture-set block's pointers: #[br(offset = (position - 4))]
TexSetOffset(position) == position - 4

\* struct TexSetReader at absolute position at
TexSetReader(b, at) ==
  IF ~InRange(b, at, 12) THEN Fail("BinRead")
  ELSE IF Slice(b, at, 4) # MagicTexSet THEN Fail("BinRead")
  ELSE
    LET position == get_position(at)
        texture_count == U32(b, at + 4)
    IN  IF texture_count < 0 \/ ~InRange(b, at + 12, 4 * texture_count)
        THEN Fail("BinRead")
        ELSE IF \E k \in 0 .. texture_count - 1 : U32(b, at + 12 + 4 * k) < 0
        THEN Fail("BinRead")
        ELSE
          LET texs == [k \in 1 .. texture_count |->
                         TexReader(b, TexSetOffset(position)
                                        + U32(b, at + 12 + 4 * (k - 1)))]
          IN  IF FirstErr(texs) # "" THEN Fail(FirstErr(texs))
              ELSE [err |-> "", texture_count |-> texture_count, textures |-> texs]

\* NullString at absolute position q: the bytes up to the first 0
NullString(b, q) ==
  IF q < 0 \/ ~\E e \in q + 1 .. Len(b) : b[e] = 0 THEN Fail("BinRead")
  ELSE LET e == CHOOSE e \in q + 1 .. Len(b) :
                  b[e] = 0 /\ \A j \in q + 1 .. e - 1 : b[j] # 0
       IN  [err |-> "", s |-> SubSeq(b, q + 1, e - 1)]

\* FilePtr32<Vec<FilePtr32<NullString>>> with count entries, both absolute
NameArray(b, at, count) ==
  IF at < 0 \/ ~InRange(b, at, 4 * count) THEN Fail("BinRead")
  ELSE LET ns == [k \in 1 .. count |-> NullString(b, U32(b, at + 4 * (k - 1)))]
       IN  IF FirstErr(ns) # "" THEN Fail(FirstErr(ns))
           ELSE [err |-> "", names |-> [k \in 1 .. count |-> ns[k].s]]

\* struct SpriteReader at absolute position q
SpriteReader(b, q) ==
  [texture_index |-> IF Slice(b, q, 4) = << 255, 255, 255, 255 >> THEN -1
                     ELSE U32(b, q),
   rotate |-> U32(b, q + 4),
   texel_region |-> [k \in 1 .. 4 |-> U32(b, q + 8 + 4 * (k - 1))],
   pixel_region |-> [k \in 1 .. 4 |-> U32(b, q + 24 + 4 * (k - 1))]]

\* FilePtr32<Vec<SpriteReader>>
SpriteArray(b, at, count) ==
  IF at < 0 \/ ~InRange(b, at, 40 * count) THEN Fail("BinRead")
  ELSE [err |-> "", sprites |-> [k \in 1 .. count |-> SpriteReader(b, at + 40 * (k - 1))]]

\* FilePtr32<Vec<(u32, ScreenMode)>>
SpriteExtras(b, at, count) ==
  IF at < 0 \/ ~InRange(b, at, 8 * count) THEN Fail("BinRead")
  ELSE IF \E k \in 0 .. count - 1 : U32(b, at + 8 * k + 4) \notin ScreenModes
  THEN Fail("BinRead")
  ELSE [err |-> "", extras |-> [k \in 1 .. count |-> U32(b, at + 8 * (k - 1) + 4)]]

\* struct SprSetReader, read at stream position 0 by reader.read_ne()
SprSetReader(b) ==
  IF ~InRange(b, 0, 32) THEN Fail("BinRead")
  ELSE
    LET tex_sets_count == U32(b, 8)
        sprite_count == U32(b, 12)
    IN  IF tex_sets_count < 0 \/ sprite_count < 0 \/ U32(b, 4) < 0 THEN Fail("BinRead")
        ELSE
          LET tex_sets == TexSetReader(b, U32(b, 4))
              sprites == SpriteArray(b, U32(b, 16), sprite_count)
              tex_names == NameArray(b, U32(b, 20), tex_sets_count)
              sprite_names == NameArray(b, U32(b, 24), sprite_count)
              sprite_extras == SpriteExtras(b, U32(b, 28), sprite_count)
              all == << tex_sets, sprites, tex_names, sprite_names, sprite_extras >>
          IN  IF FirstErr(all) # "" THEN Fail(FirstErr(all))
              ELSE [err |-> "",
                    flags |-> U32(b, 0),
                    tex_sets_count |-> tex_sets_count,
                    sprite_count |-> sprite_count,
                    tex_sets |-> tex_sets.textures,
                    sprites |-> sprites.sprites,
                    tex_names |-> tex_names.names,
                    sprite_names |-> sprite_names.names,
                    sprite_extras |-> sprite_extras.extras]


(***************************************************************************)
(* Strings and the auxiliary database (diva_db::spr::SprDbSet).            *)
(***************************************************************************)
RECURSIVE Replace(_, _, _)
\* str::replace: every non-overlapping occurrence of `from`, left to right
Replace(s, from, to) ==
  IF Len(from) = 0 \/ Len(s) < Len(from) THEN s
  ELSE IF SubSeq(s, 1, Len(from)) = from
       THEN to \o Replace(SubSeq(s, Len(from) + 1, Len(s)), from, to)
       ELSE << s[1] >> \o Replace(Tail(s), from, to)

\* "SPR", "SPRTEX", "_"
StrSPR == << 83, 80, 82 >>
StrSPRTEX == << 83, 80, 82, 84, 69, 88 >>
StrUnderscore == << 95 >>

NoDb == [some |-> FALSE]

replacement_spr(db) == IF db.some THEN db.name \o StrUnderscore ELSE << >>
replacement_tex(db) == Replace(replacement_spr(db), StrSPR, StrSPRTEX)

\* .iter().find(|e| e.1.index as usize == i): the first entry with that index
DbFind(entries, i) ==
  IF \E k \in 1 .. Len(entries) : entries[k].index = i
  THEN [found |-> TRUE,
        name |-> entries[CHOOSE k \in 1 .. Len(entries) :
                           entries[k].index = i
                           /\ \A j \in 1 .. k - 1 : entries[j].index # i].name]
  ELSE [found |-> FALSE]

\* the name of texture or sprite i: the embedded one, or, when that is empty
\* and a database set is supplied, the database's with the prefix removed
ResolveName(embedded, db, entries, i, prefix) ==
  IF embedded # << >> \/ ~db.some THEN [err |-> "", name |-> embedded]
  ELSE IF ~DbFind(entries, i).found THEN Fail("MissingData")
  ELSE [err |-> "", name |-> Replace(DbFind(entries, i).name, prefix, << >>)]

(***************************************************************************)
(* The staging container (crate ddsfile) as from_reader uses it.           *)
(***************************************************************************)
BlockBytes(f) ==
  CASE f \in {"BC1_UNorm", "BC4_UNorm"} -> 8
    [] f \in {"BC2_UNorm", "BC2_UNorm_sRGB", "BC3_UNorm", "BC5_UNorm",
              "BC6H_UF16", "BC7_UNorm"} -> 16
    [] OTHER -> 0

BitsPerPixel(f) ==
  CASE f \in {"R8_UNorm", "A8_UNorm"} -> 8
    [] f = "A8P8" -> 16
    [] f = "R8G8B8A8_UNorm" -> 32
    [] OTHER -> 0

\* bytes of mip level 0 of one layer
MainTextureSize(f, width, height, depth) ==
  IF BlockBytes(f) > 0
  THEN BlockBytes(f) * Max(1, (width + 3) \div 4) * ((height + 3) \div 4) * depth
  ELSE ((width * BitsPerPixel(f) + 7) \div 8) * height * depth

MinMipSize(f) == IF BlockBytes(f) > 0 THEN BlockBytes(f) ELSE (BitsPerPixel(f) + 7) \div 8

RECURSIVE ArrayStride(_, _, _)
\* bytes of one layer: the sizes of its mip levels, each a quarter of the one
\* before and no smaller than the format's smallest
ArrayStride(size, min, levels) ==
  IF levels = 0 THEN 0
  ELSE size + ArrayStride(Max(size \div 4, min), min, levels - 1)

\* Dds::new_dxgi(params): a zeroed buffer of array_layers layers, or the
\* crate's error for a format with no size
NewDxgi(f, width, height, depth, mipmap_levels, array_layers, is_cubemap) ==
  IF BlockBytes(f) = 0 /\ BitsPerPixel(f) = 0 THEN Fail("Dds")
  ELSE [err |-> "",
        format |-> f,
        width |-> width,
        height |-> height,
        is_cubemap |-> is_cubemap,
        array_layers |-> array_layers,
        layer_size |-> ArrayStride(MainTextureSize(f, width, height, depth),
                                   MinMipSize(f), mipmap_levels)]

(***************************************************************************)
(* Images (image::DynamicImage): width, height and the RGBA bytes.         *)
(***************************************************************************)
\* DynamicImage::flipv on 4-byte pixels: the rows in reverse order
FlipV(px, width, height) ==
  [k \in 1 .. Len(px) |->
     px[(height - 1 - ((k - 1) \div (4 * width))) * 4 * width
        + ((k - 1) % (4 * width)) + 1]]

\* texpresso's decompress: 4 * width * height bytes computed from the staged
\* bytes.  The block codec is outside the repository; only the length of
\* its output and its being a function of the staged bytes are modelled.
Decompress(data, width, height) ==
  [k \in 1 .. 4 * width * height |-> IF Len(data) > 0 THEN data[1] ELSE 0]

\* a decode match that also accepts the sRGB variant of BC2
BcDecodableWithSrgb ==
  {"BC1_UNorm", "BC2_UNorm", "BC2_UNorm_sRGB", "BC3_UNorm", "BC4_UNorm", "BC5_UNorm"}

\* the formats the match of dds_to_dynamic sends to the block decoder
BcDecodable == {"BC1_UNorm", "BC2_UNorm", "BC3_UNorm", "BC4_UNorm", "BC5_UNorm"}

dds_to_dynamic(dds, data) ==
  IF dds.format \notin BcDecodable THEN [some |-> FALSE]
  ELSE [some |-> TRUE,
        image |-> [width |-> dds.width,
                   height |-> dds.height,
                   pixels |-> FlipV(Decompress(data, dds.width, dds.height),
                                    dds.width, dds.height)]]

(***************************************************************************)
(* HashMap<String, _>: a function from names.                              *)
(***************************************************************************)
EmptyMap == << >>

Insert(m, k, v) == [x \in (DOMAIN m) \cup {k} |-> IF x = k THEN v ELSE m[x]]


(***************************************************************************)
(* SprSet::from_reader after the read_ne: the texture loop and the sprite  *)
(* loop.  r is the SprSetReader that was read, db the Option<&SprDbSet>.   *)
(***************************************************************************)
Zeros(n) == [k \in 1 .. n |-> 0]

\* one layer of the staging buffer after copy_nonoverlapping(src, dest, len)
StagedLayer(src, layer_size) ==
  [k \in 1 .. layer_size |-> IF k <= Len(src) THEN src[k] ELSE 0]

RECURSIVE Concat(_)
Concat(ss) == IF Len(ss) = 0 THEN << >> ELSE Head(ss) \o Concat(Tail(ss))

\* the name of texture i (0-based): lines 275-292
TextureName(r, db, i) ==
  IF i >= Len(r.tex_names) THEN Fail("MissingData")
  ELSE ResolveName(r.tex_names[i + 1], db,
                   IF db.some THEN db.textures ELSE << >>, i, replacement_tex(db))

\* the body of the texture loop for texture i (0-based): lines 275-394
TextureStep(r, db, i) ==
  LET tex == r.tex_sets[i + 1]
      nm == TextureName(r, db, i)
  IN
  IF nm.err # "" THEN Fail(nm.err)
  ELSE IF Len(tex.mip_map_array) = 0 THEN Fail("MissingData")
  ELSE IF Len(tex.mip_map_array[1]) = 0 THEN Fail("MissingData")
  ELSE
    LET mip0 == tex.mip_map_array[1][1]
        dds == NewDxgi(to_dxgi_format(mip0.format), mip0.width, mip0.height,
                       tex.depth, tex.mip_maps, tex.array_size,
                       tex.kind = "TexCubeMap")
    IN
    IF dds.err # "" THEN Fail(dds.err)
    ELSE
      LET srcs == [f \in 1 .. Len(tex.mip_map_array) |-> tex.mip_map_array[f][1].data]
          overflow == \E f \in 1 .. Len(srcs) : Len(srcs[f]) > dds.layer_size
          data == Concat([f \in 1 .. Len(srcs) |-> StagedLayer(srcs[f], dds.layer_size)])
          img == dds_to_dynamic(dds, data)
      IN
      IF overflow THEN Fail("UB")
      ELSE IF ~img.some THEN Fail("MissingData")
      ELSE [err |-> "", name |-> nm.name, image |-> img.image]

RECURSIVE TextureLoop(_, _, _, _)
\* for (i, tex) in spr_set.tex_sets.textures.iter().enumerate()
TextureLoop(r, db, i, out_textures) ==
  IF i >= Len(r.tex_sets) THEN [err |-> "", map |-> out_textures]
  ELSE LET t == TextureStep(r, db, i)
       IN  IF t.err # "" THEN Fail(t.err)
           ELSE TextureLoop(r, db, i + 1, Insert(out_textures, t.name, t.image))

\* the body of the sprite loop for sprite i (0-based): lines 398-447
SpriteStep(r, db, i) ==
  LET spr == r.sprites[i + 1]
      ti == spr.texture_index
  IN
  IF ti < 0 \/ ti >= Len(r.tex_names) THEN Fail("MissingData")
  ELSE
    LET nm == ResolveName(r.sprite_names[i + 1], db,
                          IF db.some THEN db.sprites ELSE << >>, i, replacement_spr(db))
        tn == ResolveName(r.tex_names[ti + 1], db,
                          IF db.some THEN db.textures ELSE << >>, ti, replacement_tex(db))
    IN
    IF nm.err # "" THEN Fail(nm.err)
    ELSE IF tn.err # "" THEN Fail(tn.err)
    ELSE [err |-> "",
          name |-> nm.name,
          sprite |-> [screen_mode |-> r.sprite_extras[i + 1],
                      pixel_region |-> spr.pixel_region,
                      texel_region |-> spr.texel_region,
                      rotate |-> spr.rotate,
                      texture_name |-> tn.name]]

RECURSIVE SpriteLoop(_, _, _, _)
\* for (i, spr) in spr_set.sprites.iter().enumerate()
SpriteLoop(r, db, i, out_sprites) ==
  IF i >= Len(r.sprites) THEN [err |-> "", map |-> out_sprites]
  ELSE LET t == SpriteStep(r, db, i)
       IN  IF t.err # "" THEN Fail(t.err)
           ELSE SpriteLoop(r, db, i + 1, Insert(out_sprites, t.name, t.sprite))

\* from_reader, given the result r of reader.read_ne()
from_reader(r, db) ==
  IF r.err # "" THEN [res |-> r.err]
  ELSE
    LET texs == TextureLoop(r, db, 0, EmptyMap)
        sprs == SpriteLoop(r, db, 0, EmptyMap)
    IN
    IF texs.err # "" THEN [res |-> texs.err]
    ELSE IF sprs.err # "" THEN [res |-> sprs.err]
    ELSE [res |-> "Ok",
          name |-> IF db.some THEN db.name ELSE << >>,
          flags |-> r.flags,
          textures |-> texs.map,
          sprites |-> sprs.map]


(***************************************************************************)
(* The writer's stream: a Cursor over a byte vector.  w.buf are the bytes, *)
(* w.pos the cursor, w.log every write that landed on bytes already in the *)
(* stream (position and length), in order.                                 *)
(***************************************************************************)
NewWriter == [buf |-> << >>, pos |-> 0, log |-> << >>]

\* writer.write / write_ne: the bytes go in at the cursor, over what is
\* there and past the end, and the cursor moves behind them
Put(w, bytes) ==
  [buf |-> [k \in 1 .. Max(Len(w.buf), w.pos + Len(bytes)) |->
              IF k > w.pos /\ k <= w.pos + Len(bytes) THEN bytes[k - w.pos]
              ELSE w.buf[k]],
   pos |-> w.pos + Len(bytes),
   log |-> IF w.pos < Len(w.buf) /\ Len(bytes) > 0
           THEN Append(w.log, [at |-> w.pos, len |-> Len(bytes)])
           ELSE w.log]

\* writer.seek(SeekFrom::Start(p))
Seek(w, p) == [w EXCEPT !.pos = p]

\* a back-patch that leaves the cursor behind the patched field
StayAtPatch(w, pos) == w

\* where the cursor is left after a pointer field was patched
SeekBack(w, pos) == Seek(w, pos)

\* the back-patch: seek to the placeholder, write the value, seek back to pos
Patch(w, at, value, pos) == SeekBack(Put(Seek(w, at), LE32(value)), pos)

RECURSIVE PutZeros(_, _)
\* for _ in ..: push(stream_position()); write_ne(&0u32)
PutZeros(w, n) == IF n = 0 THEN w ELSE PutZeros(Put(w, LE32(0)), n - 1)

\* the positions pushed by that loop, started at position p
Placeholders(p, n) == [k \in 1 .. n |-> p + 4 * (k - 1)]

(***************************************************************************)
(* The sort of to_writer: sort_by(|(a, _), (b, _)| a.cmp(b)) on the        *)
(* entries collected from the map in its iteration order.                  *)
(***************************************************************************)
RECURSIVE InsertByName(_, _)
InsertByName(sorted, n) ==
  IF Len(sorted) = 0 THEN << n >>
  ELSE IF NameLess(n, Head(sorted)) THEN << n >> \o sorted
  ELSE << Head(sorted) >> \o InsertByName(Tail(sorted), n)

RECURSIVE SortNames(_)
SortNames(v) ==
  IF Len(v) = 0 THEN << >>
  ELSE InsertByName(SortNames(SubSeq(v, 1, Len(v) - 1)), v[Len(v)])

\* textures.iter().enumerate().find(|(_, (name, _))| name == texture_name):
\* the 0-based index, or -1 for None
FindTexture(textures, texture_name) ==
  IF \E k \in 1 .. Len(textures) : textures[k] = texture_name
  THEN (CHOOSE k \in 1 .. Len(textures) : textures[k] = texture_name) - 1
  ELSE -1

\* dynamic_to_dds: an R8G8B8A8 container of one layer and one mip level
dynamic_to_dds(image) ==
  [format |-> "R8G8B8A8_UNorm",
   width |-> image.width,
   height |-> image.height,
   mip_map_count |-> 1,
   array_size |-> 1,
   depth |-> 8,
   data |-> FlipV(image.pixels, image.width, image.height)]

\* CString::new(name): Err(NulError) on a 0 byte inside the name
HasNul(name) == \E k \in 1 .. Len(name) : name[k] = 0


(***************************************************************************)
(* Inputs of the reader: containers laid out as the readers expect them,   *)
(* from a description d:                                                   *)
(*   d.texs       the texture entries of the texture-set block             *)
(*   d.tex_names  the texture names (their number is tex_sets_count)       *)
(*   d.sprs       the sprites (texture_index, name, screen mode)           *)
(***************************************************************************)
RECURSIVE SumLen(_, _)
\* the length of the first k byte strings of ss together
SumLen(ss, k) == IF k = 0 THEN 0 ELSE Len(ss[k]) + SumLen(ss, k - 1)

\* a mip level record
MipBytes(t) ==
  MagicMipMap \o LE32(t.width) \o LE32(t.height) \o FormatBytes(t.format)
    \o << 0, 0, 0, 0 >> \o LE32(Len(t.data)) \o t.data

\* the mip pointers a reader consumes per layer of entry t
EntryLevels(t) ==
  IF t.kind = "Tex2d" THEN t.mip_levels
  ELSE IF t.array_size = 0 THEN 0
  ELSE t.mip_levels \div t.array_size

\* a texture entry: the fixed fields, array_size * levels pointers in line,
\* then one mip record per layer, which every pointer of the layer names
EntryBytes(t) ==
  LET levels == EntryLevels(t)
      first == 12 + 4 * levels * t.array_size
      ptrs == [f \in 1 .. t.array_size |->
                 Concat([k \in 1 .. levels |->
                           LE32(first + (f - 1) * Len(MipBytes(t)))])]
  IN  (IF t.kind = "Tex2d" THEN MagicTex2d ELSE MagicTexCubeMap)
      \o LE32(t.mip_maps)
      \o << t.mip_levels, t.array_size, t.depth, 0 >>
      \o Concat(ptrs)
      \o Concat([f \in 1 .. t.array_size |-> MipBytes(t)])

\* the texture-set block; pointers are relative to the block's magic
TexSetBytes(texs) ==
  LET entries == [k \in 1 .. Len(texs) |-> EntryBytes(texs[k])]
      first == 12 + 4 * Len(texs)
  IN  MagicTexSet \o LE32(Len(texs)) \o LE32(0)
      \o Concat([k \in 1 .. Len(texs) |-> LE32(first + SumLen(entries, k - 1))])
      \o Concat(entries)

\* an array of absolute pointers to nul-terminated names, placed at `at`
NameArrayBytes(names, at) ==
  LET strs == [k \in 1 .. Len(names) |-> names[k] \o << 0 >>]
      first == at + 4 * Len(names)
  IN  Concat([k \in 1 .. Len(names) |-> LE32(first + SumLen(strs, k - 1))])
      \o Concat(strs)

SpriteBytes(sp) ==
  LEI32(sp.texture_index) \o LE32(sp.rotate)
    \o Concat([k \in 1 .. 4 |-> LE32(sp.texel_region[k])])
    \o Concat([k \in 1 .. 4 |-> LE32(sp.pixel_region[k])])

Container(d) ==
  LET texset == TexSetBytes(d.texs)
      sprites == Concat([k \in 1 .. Len(d.sprs) |-> SpriteBytes(d.sprs[k])])
      at_sprites == 32 + Len(texset)
      at_tex_names == at_sprites + Len(sprites)
      tex_names == NameArrayBytes(d.tex_names, at_tex_names)
      at_spr_names == at_tex_names + Len(tex_names)
      spr_names == NameArrayBytes([k \in 1 .. Len(d.sprs) |-> d.sprs[k].name],
                                  at_spr_names)
      at_extras == at_spr_names + Len(spr_names)
      extras == Concat([k \in 1 .. Len(d.sprs) |->
                          LE32(0) \o LE32(d.sprs[k].screen_mode)])
  IN  LE32(d.flags) \o LE32(32) \o LE32(Len(d.tex_names)) \o LE32(Len(d.sprs))
      \o LE32(at_sprites) \o LE32(at_tex_names) \o LE32(at_spr_names)
      \o LE32(at_extras)
      \o texset \o sprites \o tex_names \o spr_names \o extras

\* names used in inputs: "A", "B", "AB", "A\0B", "S", "R", "S\0R", "ZZ"
NameA == << 65 >>
NameB == << 66 >>
NameAB == << 65, 66 >>
NameANulB == << 65, 0, 66 >>
NameS == << 83 >>
NameR == << 82 >>
NameSNulR == << 83, 0, 82 >>
NameZZ == << 90, 90 >>

\* a Plane entry of one layer and one mip level, 2 x 2 pixels
PlaneEntry(format) ==
  [kind |-> "Tex2d", mip_maps |-> 1, mip_levels |-> 1, array_size |-> 1,
   depth |-> 1, format |-> format, width |-> 2, height |-> 2,
   data |-> << 7, 9 >>]

\* a CubeMap entry with the given mip_levels and array_size bytes
CubeEntry(mip_levels, array_size) ==
  [kind |-> "TexCubeMap", mip_maps |-> 1, mip_levels |-> mip_levels,
   array_size |-> array_size, depth |-> 1, format |-> 9, width |-> 2,
   height |-> 2, data |-> << 7 >>]

\* a Plane DXT1 entry of array_size layers with mip_levels pointers each,
\* whose mip records carry n payload bytes
LayerEntry(mip_levels, array_size, n) ==
  [kind |-> "Tex2d", mip_maps |-> mip_levels, mip_levels |-> mip_levels,
   array_size |-> array_size, depth |-> 1, format |-> 6, width |-> 2,
   height |-> 2, data |-> [k \in 1 .. n |-> 16 + k]]

\* the k-th sprite of a synthetic container (k from 1), on texture index ti
SpriteEntry(k, ti, name) ==
  [texture_index |-> ti, name |-> name, rotate |-> k, screen_mode |-> 12 + k,
   texel_region |-> << 1, 2, 3, k >>, pixel_region |-> << 0, k, 64, 32 >>]

\* one Plane texture of every format code of the table, one sprite
FormatContainers ==
  { [flags |-> 3, texs |-> << PlaneEntry(c) >>, tex_names |-> << NameA >>,
     sprs |-> << SpriteEntry(1, 0, NameS) >>] : c \in TextureFormatCodes }

\* one CubeMap texture, of 6 faces or of none, for every mip_levels byte
CubeContainers ==
  { [flags |-> 3, texs |-> << CubeEntry(m, a) >>, tex_names |-> << NameA >>,
     sprs |-> << SpriteEntry(1, 0, NameS) >>] :
      m \in 0 .. MaxMipLevels, a \in {0, 6} }

\* every pair of texture_count and tex_sets_count, and sprites that name a
\* texture index below, at or past the counts
CountContainers ==
  { [flags |-> 3,
     texs |-> [k \in 1 .. m |-> PlaneEntry(IF k = 1 THEN 9 ELSE 6)],
     tex_names |-> [k \in 1 .. n |-> IF k % 2 = 1 THEN NameB ELSE NameA \o << 64 + k >>],
     sprs |-> [k \in 1 .. j |-> SpriteEntry(k, ti + k - 1,
                                             IF k % 2 = 1 THEN NameS ELSE NameR \o << 64 + k >>)]] :
      m \in 0 .. MaxCount, n \in 0 .. MaxCount, j \in 0 .. MaxCount, ti \in -1 .. 1 }

\* embedded names that are empty, and names that collide
NameContainers ==
  { [flags |-> 3,
     texs |-> << PlaneEntry(9), PlaneEntry(6) >>,
     tex_names |-> << t1, t2 >>,
     sprs |-> << SpriteEntry(1, 0, s1), SpriteEntry(2, 1, s2) >>] :
      t1 \in {<< >>, NameA}, t2 \in {<< >>, NameA, NameB},
      s1 \in {<< >>, NameS}, s2 \in {<< >>, NameS, NameR} }

\* one Plane texture of one or two layers and one or two mip levels, whose
\* payload is one 4 x 4 block (8 bytes) or a byte more
LayerContainers ==
  { [flags |-> 3, texs |-> << LayerEntry(m, a, n) >>, tex_names |-> << NameA >>,
     sprs |-> << SpriteEntry(1, 0, NameS) >>] :
      m \in 1 .. 2, a \in 1 .. 2, n \in {8, 9} }

Containers ==
  { Container(d) :
      d \in FormatContainers \cup CubeContainers \cup CountContainers
              \cup NameContainers \cup LayerContainers }

\* "SPR_X", and database names "SPRTEX_X_T0", "SPRTEX_X_T1", "SPR_X_S0", "SPR_X_S1"
DbSetName == << 83, 80, 82, 95, 88 >>
DbTexName(i) == << 83, 80, 82, 84, 69, 88, 95, 88, 95, 84, 48 + i >>
DbSprName(i) == << 83, 80, 82, 95, 88, 95, 83, 48 + i >>

\* a database set that has a record for every declared index 0 .. MaxCount
DbFull ==
  [some |-> TRUE, name |-> DbSetName,
   textures |-> [k \in 1 .. MaxCount + 1 |-> [index |-> k - 1, name |-> DbTexName(k - 1)]],
   sprites |-> [k \in 1 .. MaxCount + 1 |-> [index |-> k - 1, name |-> DbSprName(k - 1)]]]

\* a database set with no record for index 0
DbPartial ==
  [some |-> TRUE, name |-> DbSetName,
   textures |-> << [index |-> 1, name |-> DbTexName(1)] >>,
   sprites |-> << [index |-> 1, name |-> DbSprName(1)] >>]

Databases == {NoDb, DbFull, DbPartial}


(***************************************************************************)
(* Inputs of the writer: the SprSets a caller builds (py_set_to_set:       *)
(* flags 0, rotate 0, texel_region 0), besides those from_reader returns.  *)
(***************************************************************************)
TextureNamePool == {NameA, NameB, NameAB, NameANulB}
SpriteNamePool == {NameS, NameR, NameSNulR}

\* an image for each texture name: the sizes and the bytes differ by name
ImageOf(name) ==
  [width |-> 1 + (name[1] % 2),
   height |-> Len(name),
   pixels |-> [k \in 1 .. 4 * (1 + (name[1] % 2)) * Len(name) |-> name[1] + k]]

\* a sprite for each sprite name, on texture `ref` when its name is "S"
SpriteOf(name, ref) ==
  [screen_mode |-> name[1] % 19,
   texel_region |-> << 0, 0, 0, 0 >>,
   pixel_region |-> << 0, Len(name), name[1], 32 >>,
   rotate |-> 0,
   texture_name |-> IF name = NameS THEN ref
                    ELSE IF name = NameR THEN NameA ELSE NameB]

CallerSets ==
  { [flags |-> 0,
     textures |-> [n \in T |-> ImageOf(n)],
     sprites |-> [n \in S |-> SpriteOf(n, ref)]] :
      T \in { X \in SUBSET TextureNamePool : Cardinality(X) <= MaxTextures },
      S \in { X \in SUBSET SpriteNamePool : Cardinality(X) <= MaxSprites },
      ref \in {NameA, NameB, NameZZ} }

\* the orders in which a HashMap with key set K may be iterated
IterationOrders(K) ==
  { v \in [1 .. Cardinality(K) -> K] : \A a, b \in 1 .. Cardinality(K) : a # b => v[a] # v[b] }

(***************************************************************************)
(* State.                                                                  *)
(***************************************************************************)
VARIABLES
  pc,        \* where the program is: idle, in from_reader, in to_writer
  input,     \* the bytes handed to from_reader
  db,        \* the Option<&SprDbSet> handed to from_reader
  spr_set,   \* from_reader: the SprSetReader read by read_ne
  parsed,    \* from_reader's result
  self,      \* to_writer: the SprSet being written
  origin,    \* whether self came from a caller or from from_reader
  w,         \* to_writer: the stream (bytes, cursor, log of overwrites)
  loc,       \* to_writer: its local variables
  wres,      \* to_writer's result
  trip       \* whether input is the stream a to_writer call just produced

vars == << pc, input, db, spr_set, parsed, self, origin, w, loc, wres, trip >>

NoLoc ==
  [tex_ptr_pos |-> 0, spr_ptr_pos |-> 0, tex_names_ptr_pos |-> 0,
   spr_names_ptr_pos |-> 0, spr_extra_ptr_pos |-> 0,
   tex_iter |-> << >>, spr_iter |-> << >>,
   textures |-> << >>, sprites |-> << >>,
   tex_pos |-> 0, textures_pos |-> << >>, entries_pos |-> << >>,
   pos |-> 0, mip_pos |-> << >>, all_mip_pos |-> << >>, data_pos |-> << >>,
   sprites_pos |-> 0, indices |-> << >>,
   tex_names_pos |-> 0, texture_names_locs |-> << >>, tex_strs_pos |-> << >>,
   spr_names_pos |-> 0, spr_names_locs |-> << >>, spr_strs_pos |-> << >>,
   extras_pos |-> 0,
   dds |-> << >>, i |-> 0, j |-> 0]

Init ==
  /\ pc = "idle"
  /\ input = << >>
  /\ db = NoDb
  /\ spr_set = Fail("none")
  /\ parsed = [res |-> "none"]
  /\ self = [flags |-> 0, textures |-> EmptyMap, sprites |-> EmptyMap]
  /\ origin = "none"
  /\ w = NewWriter
  /\ loc = NoLoc
  /\ wres = "none"
  /\ trip = FALSE

(***************************************************************************)
(* from_reader.                                                            *)
(***************************************************************************)
\* a caller hands a container and an optional database set to from_reader
CallFromReader ==
  /\ pc = "idle"
  /\ \E c \in Containers, d \in Databases :
       /\ input' = c
       /\ db' = d
  /\ pc' = "r_read"
  /\ UNCHANGED << spr_set, parsed, self, origin, w, loc, wres, trip >>

\* line 257: let spr_set: SprSetReader = reader.read_ne()?
ReadNe ==
  /\ pc = "r_read"
  /\ spr_set' = SprSetReader(input)
  /\ pc' = "r_loops"
  /\ UNCHANGED << input, db, parsed, self, origin, w, loc, wres, trip >>

\* what a build can do once copy_nonoverlapping wrote past its destination
Outcomes(r) ==
  IF r.res = "UB" THEN {[res |-> "Abort"], [res |-> "MemoryCorrupted"]} ELSE {r}

\* lines 258-455: the two loops and the result
Loops ==
  /\ pc = "r_loops"
  /\ \E o \in Outcomes(from_reader(spr_set, db)) : parsed' = o
  /\ pc' = "r_done"
  /\ UNCHANGED << input, db, spr_set, self, origin, w, loc, wres, trip >>


(***************************************************************************)
(* to_writer, in steps.  Every step holds at most one back-patch, at its   *)
(* start.  Besides the code's own locals, loc keeps the values `pos` and   *)
(* `data_pos` took (entries_pos, data_pos, ...), which the code drops.     *)
(***************************************************************************)
\* a caller hands a SprSet it built to to_writer, on an empty stream
CallToWriter ==
  /\ pc = "idle"
  /\ \E s \in CallerSets :
       /\ self' = s
       /\ \E ti \in IterationOrders(DOMAIN s.textures),
             si \in IterationOrders(DOMAIN s.sprites) :
            loc' = [NoLoc EXCEPT !.tex_iter = ti, !.spr_iter = si]
  /\ origin' = "caller"
  /\ w' = NewWriter
  /\ wres' = "none"
  /\ pc' = "w_header"
  /\ UNCHANGED << input, db, spr_set, parsed, trip >>

\* a caller hands the SprSet from_reader returned to to_writer
WriteParsed ==
  /\ pc = "r_done"
  /\ parsed.res = "Ok"
  /\ self' = [flags |-> parsed.flags, textures |-> parsed.textures,
              sprites |-> parsed.sprites]
  /\ \E ti \in IterationOrders(DOMAIN parsed.textures),
        si \in IterationOrders(DOMAIN parsed.sprites) :
       loc' = [NoLoc EXCEPT !.tex_iter = ti, !.spr_iter = si]
  /\ origin' = "parsed"
  /\ w' = NewWriter
  /\ wres' = "none"
  /\ pc' = "w_header"
  /\ UNCHANGED << input, db, spr_set, parsed, trip >>

\* the entries in the map's iteration order, the sort left out
UnsortedEntries(iter) == iter

\* the sorted Vec of a map's entries (here: of their names)
SortedEntries(iter) == SortNames(iter)

\* lines 476-493: the header with its five placeholders, and the two sorts
Header ==
  /\ pc = "w_header"
  /\ LET w1 == Put(w, LE32(self.flags))
         w2 == Put(Put(Put(w1, LE32(0)), LE32(Len(loc.tex_iter))),
                   LE32(Len(loc.spr_iter)))
         w3 == Put(w2, LE32(0))
         w4 == Put(w3, LE32(0))
         w5 == Put(w4, LE32(0))
     IN  /\ w' = Put(w5, LE32(0))
         /\ loc' = [loc EXCEPT !.tex_ptr_pos = w1.pos,
                               !.spr_ptr_pos = w2.pos,
                               !.tex_names_ptr_pos = w3.pos,
                               !.spr_names_ptr_pos = w4.pos,
                               !.spr_extra_ptr_pos = w5.pos,
                               !.textures = SortedEntries(loc.tex_iter),
                               !.sprites = SortedEntries(loc.spr_iter)]
  /\ pc' = "w_texset"
  /\ UNCHANGED << input, db, spr_set, parsed, self, origin, wres, trip >>

\* lines 496-507: the texture-set block and its placeholders
TexSet ==
  /\ pc = "w_texset"
  /\ LET tex_pos == w.pos
         n == Len(loc.textures)
         w1 == Patch(w, loc.tex_ptr_pos, tex_pos, tex_pos)
         w2 == Put(Put(Put(w1, MagicTexSet), LE32(n)), LE32(0))
     IN  /\ w' = PutZeros(w2, n)
         /\ loc' = [loc EXCEPT !.tex_pos = tex_pos,
                               !.textures_pos = Placeholders(w2.pos, n),
                               !.i = 0]
         /\ pc' = IF n > 0 THEN "w_entry" ELSE "w_sprites"
  /\ UNCHANGED << input, db, spr_set, parsed, self, origin, wres, trip >>

\* a base taken behind the texture-set magic instead of at it
EntryBaseAfterMagic(tex_pos) == tex_pos + 4

\* the base a texture-entry pointer is written against: pos - tex_pos
EntryBase(tex_pos) == tex_pos

\* lines 509-527: texture i's entry up to its mip placeholders
Entry ==
  /\ pc = "w_entry"
  /\ LET texture == dynamic_to_dds(self.textures[loc.textures[loc.i + 1]])
         pos == w.pos
         w1 == Patch(w, loc.textures_pos[loc.i + 1], pos - EntryBase(loc.tex_pos), pos)
         mip_levels == texture.mip_map_count
         w2 == Put(Put(Put(Put(Put(Put(w1, MagicTex2d), LE32(mip_levels)),
                               << mip_levels % 256 >>),
                           << texture.array_size % 256 >>),
                       << texture.depth % 256 >>),
                   << 0 >>)
     IN  /\ w' = PutZeros(w2, texture.array_size)
         /\ loc' = [loc EXCEPT !.dds = texture,
                               !.pos = pos,
                               !.entries_pos = Append(@, pos),
                               !.mip_pos = Placeholders(w2.pos, texture.array_size),
                               !.all_mip_pos =
                                 Append(@, Placeholders(w2.pos, texture.array_size)),
                               !.data_pos = Append(@, << >>),
                               !.i = IF texture.array_size > 0 THEN @ ELSE @ + 1,
                               !.j = 0]
         /\ pc' = IF texture.array_size > 0 THEN "w_mip"
                  ELSE IF loc.i + 1 < Len(loc.textures) THEN "w_entry"
                  ELSE "w_sprites"
  /\ UNCHANGED << input, db, spr_set, parsed, self, origin, wres, trip >>

\* the base a mip pointer is written against: data_pos - pos
MipBase(pos) == pos

\* lines 529-543: the mip record of layer j of texture i
Mip ==
  /\ pc = "w_mip"
  /\ LET texture == loc.dds
         data_pos == w.pos
         w1 == Patch(w, loc.mip_pos[loc.j + 1], data_pos - MipBase(loc.pos), data_pos)
         w2 == Put(Put(Put(Put(w1, MagicMipMap), LE32(texture.width)),
                       LE32(texture.height)),
                   LEI32(from_dxgi_format(texture.format)))
         w3 == Put(Put(Put(w2, << loc.j % 256 >>), << loc.j % 256 >>), << 0, 0 >>)
         data == texture.data
     IN  /\ w' = Put(Put(w3, LE32(Len(data))), data)
         /\ loc' = [loc EXCEPT !.data_pos[loc.i + 1] = Append(@, data_pos),
                               !.j = loc.j + 1,
                               !.i = IF loc.j + 1 < texture.array_size THEN @ ELSE @ + 1]
         /\ pc' = IF loc.j + 1 < texture.array_size THEN "w_mip"
                  ELSE IF loc.i + 1 < Len(loc.textures) THEN "w_entry"
                  ELSE "w_sprites"
  /\ UNCHANGED << input, db, spr_set, parsed, self, origin, wres, trip >>


\* lines 548-551: the sprite array begins
SpritesBegin ==
  /\ pc = "w_sprites"
  /\ LET pos == w.pos
     IN  /\ w' = Patch(w, loc.spr_ptr_pos, pos, pos)
         /\ loc' = [loc EXCEPT !.sprites_pos = pos, !.i = 0]
  /\ pc' = IF Len(loc.sprites) > 0 THEN "w_sprite" ELSE "w_texnames"
  /\ UNCHANGED << input, db, spr_set, parsed, self, origin, wres, trip >>

\* a one-based place in the sorted Vec
TextureIndexOneBased(textures, sprite) ==
  FindTexture(textures, sprite.texture_name) + 1

\* the index written for a sprite: the place of its texture in the sorted Vec
TextureIndex(textures, sprite) == FindTexture(textures, sprite.texture_name)

\* lines 552-562: the record of sprite i, or MissingData for its texture
Sprite ==
  /\ pc = "w_sprite"
  /\ LET sprite == self.sprites[loc.sprites[loc.i + 1]]
         index == TextureIndex(loc.textures, sprite)
     IN  IF index < 0
         THEN /\ wres' = "MissingData"
              /\ pc' = "w_failed"
              /\ UNCHANGED << w, loc >>
         ELSE /\ w' = Put(Put(Put(Put(w, LEI32(index)), LEI32(sprite.rotate)),
                              Concat([k \in 1 .. 4 |-> LE32(sprite.texel_region[k])])),
                          Concat([k \in 1 .. 4 |-> LE32(sprite.pixel_region[k])]))
              /\ loc' = [loc EXCEPT !.indices = Append(@, index), !.i = @ + 1]
              /\ pc' = IF loc.i + 1 < Len(loc.sprites) THEN "w_sprite" ELSE "w_texnames"
              /\ wres' = wres
  /\ UNCHANGED << input, db, spr_set, parsed, self, origin, trip >>

\* lines 565-573: the texture-name pointer array and its placeholders
TexNamesBegin ==
  /\ pc = "w_texnames"
  /\ LET pos == w.pos
         n == Len(loc.textures)
         w1 == Patch(w, loc.tex_names_ptr_pos, pos, pos)
     IN  /\ w' = PutZeros(w1, n)
         /\ loc' = [loc EXCEPT !.tex_names_pos = pos,
                               !.texture_names_locs = Placeholders(w1.pos, n),
                               !.i = 0]
         /\ pc' = IF n > 0 THEN "w_texname" ELSE "w_sprnames"
  /\ UNCHANGED << input, db, spr_set, parsed, self, origin, wres, trip >>

\* lines 575-579: the pointer and the bytes of texture name i; the CString
\* is made after the pointer was patched
TexName ==
  /\ pc = "w_texname"
  /\ LET pos == w.pos
         name == loc.textures[loc.i + 1]
         w1 == Patch(w, loc.texture_names_locs[loc.i + 1], pos, pos)
     IN  IF HasNul(name)
         THEN /\ w' = w1
              /\ wres' = "NulError"
              /\ pc' = "w_failed"
              /\ loc' = loc
         ELSE /\ w' = Put(w1, name \o << 0 >>)
              /\ loc' = [loc EXCEPT !.tex_strs_pos = Append(@, pos), !.i = @ + 1]
              /\ pc' = IF loc.i + 1 < Len(loc.textures) THEN "w_texname" ELSE "w_sprnames"
              /\ wres' = wres
  /\ UNCHANGED << input, db, spr_set, parsed, self, origin, trip >>

\* lines 583-591: the sprite-name pointer array and its placeholders
SprNamesBegin ==
  /\ pc = "w_sprnames"
  /\ LET pos == w.pos
         n == Len(loc.sprites)
         w1 == Patch(w, loc.spr_names_ptr_pos, pos, pos)
     IN  /\ w' = PutZeros(w1, n)
         /\ loc' = [loc EXCEPT !.spr_names_pos = pos,
                               !.spr_names_locs = Placeholders(w1.pos, n),
                               !.i = 0]
         /\ pc' = IF n > 0 THEN "w_sprname" ELSE "w_extras"
  /\ UNCHANGED << input, db, spr_set, parsed, self, origin, wres, trip >>

\* lines 593-597: the pointer and the bytes of sprite name i
SprName ==
  /\ pc = "w_sprname"
  /\ LET pos == w.pos
         name == loc.sprites[loc.i + 1]
         w1 == Patch(w, loc.spr_names_locs[loc.i + 1], pos, pos)
     IN  IF HasNul(name)
         THEN /\ w' = w1
              /\ wres' = "NulError"
              /\ pc' = "w_failed"
              /\ loc' = loc
         ELSE /\ w' = Put(w1, name \o << 0 >>)
              /\ loc' = [loc EXCEPT !.spr_strs_pos = Append(@, pos), !.i = @ + 1]
              /\ pc' = IF loc.i + 1 < Len(loc.sprites) THEN "w_sprname" ELSE "w_extras"
              /\ wres' = wres
  /\ UNCHANGED << input, db, spr_set, parsed, self, origin, trip >>

RECURSIVE PutExtras(_, _, _)
\* for (_, sprite) in sprites.iter(): write_ne(&0u32); write_ne(screen_mode)
PutExtras(wr, modes, k) ==
  IF k > Len(modes) THEN wr
  ELSE PutExtras(Put(Put(wr, LE32(0)), LE32(modes[k])), modes, k + 1)

\* lines 601-610: the sprite extras, and Ok(())
Extras ==
  /\ pc = "w_extras"
  /\ LET pos == w.pos
         w1 == Patch(w, loc.spr_extra_ptr_pos, pos, pos)
         modes == [k \in 1 .. Len(loc.sprites) |-> self.sprites[loc.sprites[k]].screen_mode]
     IN  /\ w' = PutExtras(w1, modes, 1)
         /\ loc' = [loc EXCEPT !.extras_pos = pos]
  /\ wres' = "Ok"
  /\ pc' = "w_done"
  /\ UNCHANGED << input, db, spr_set, parsed, self, origin, trip >>

\* the bytes to_writer produced are handed to from_reader, with no database
ReadBack ==
  /\ pc = "w_done"
  /\ input' = w.buf
  /\ db' = NoDb
  /\ trip' = TRUE
  /\ pc' = "r_read"
  /\ UNCHANGED << spr_set, parsed, self, origin, w, loc, wres >>

Next ==
  \/ CallFromReader
  \/ ReadNe
  \/ Loops
  \/ CallToWriter
  \/ WriteParsed
  \/ Header
  \/ TexSet
  \/ Entry
  \/ Mip
  \/ SpritesBegin
  \/ Sprite
  \/ TexNamesBegin
  \/ TexName
  \/ SprNamesBegin
  \/ SprName
  \/ Extras
  \/ ReadBack

Spec == Init /\ [][Next]_vars


(***************************************************************************)
(* Properties.                                                             *)
(***************************************************************************)
\* the number of names of S below n: n's place (from 0) in S sorted
Rank(S, n) == Cardinality({ m \in S : NameLess(m, n) })

\* to_writer is running or has ended
InWriter ==
  pc \in {"w_header", "w_texset", "w_entry", "w_mip", "w_sprites", "w_sprite",
          "w_texnames", "w_texname", "w_sprnames", "w_sprname", "w_extras",
          "w_done", "w_failed"}

\* from_reader has returned, on bytes that to_writer produced from a SprSet
\* that from_reader had returned
RoundTripDone == pc = "r_done" /\ trip /\ origin = "parsed"

\* C1: for every SprSet S obtained by a successful parse (of a container
\* whose texture_count and tex_sets_count agree), to_writer(S) succeeds and
\* from_reader on its bytes succeeds and returns the same texture names, the
\* same sprite names, the same width and height per texture and the same
\* pixel_region, texel_region, rotate and screen_mode per sprite.
C1_RoundTrip ==
  /\ (origin = "parsed" /\ spr_set.err = ""
        /\ Len(spr_set.tex_sets) = spr_set.tex_sets_count) => pc # "w_failed"
  /\ RoundTripDone =>
       /\ parsed.res = "Ok"
       /\ DOMAIN parsed.textures = DOMAIN self.textures
       /\ DOMAIN parsed.sprites = DOMAIN self.sprites
       /\ \A n \in DOMAIN self.textures :
            /\ parsed.textures[n].width = self.textures[n].width
            /\ parsed.textures[n].height = self.textures[n].height
       /\ \A n \in DOMAIN self.sprites :
            /\ parsed.sprites[n].pixel_region = self.sprites[n].pixel_region
            /\ parsed.sprites[n].texel_region = self.sprites[n].texel_region
            /\ parsed.sprites[n].rotate = self.sprites[n].rotate
            /\ parsed.sprites[n].screen_mode = self.sprites[n].screen_mode

\* the stream to_writer produced, as the binrw readers see it
Written == SprSetReader(w.buf)

\* C2: when to_writer succeeds, the i-th texture entry, the i-th texture
\* name, the i-th sprite record, the i-th sprite name and the i-th sprite
\* extra of the stream are those of the entry with the i-th smallest name,
\* whatever the order in which the maps were iterated.
C2_SortedOrder ==
  pc = "w_done" =>
    /\ Written.err = ""
    /\ Len(Written.tex_names) = Cardinality(DOMAIN self.textures)
    /\ Len(Written.tex_sets) = Cardinality(DOMAIN self.textures)
    /\ Len(Written.sprite_names) = Cardinality(DOMAIN self.sprites)
    /\ Len(Written.sprites) = Cardinality(DOMAIN self.sprites)
    /\ Len(Written.sprite_extras) = Cardinality(DOMAIN self.sprites)
    /\ \A i \in 1 .. Len(Written.tex_names) :
         LET n == Written.tex_names[i]
             mip == Written.tex_sets[i].mip_map_array[1][1]
         IN  /\ n \in DOMAIN self.textures
             /\ Rank(DOMAIN self.textures, n) = i - 1
             /\ mip.width = self.textures[n].width
             /\ mip.height = self.textures[n].height
             /\ mip.data = FlipV(self.textures[n].pixels, mip.width, mip.height)
    /\ \A i \in 1 .. Len(Written.sprite_names) :
         LET n == Written.sprite_names[i]
         IN  /\ n \in DOMAIN self.sprites
             /\ Rank(DOMAIN self.sprites, n) = i - 1
             /\ Written.sprites[i].rotate = self.sprites[n].rotate
             /\ Written.sprites[i].texel_region = self.sprites[n].texel_region
             /\ Written.sprites[i].pixel_region = self.sprites[n].pixel_region
             /\ Written.sprite_extras[i] = self.sprites[n].screen_mode

\* to_writer succeeded on two textures and two sprites that both maps
\* iterated in descending order of name
C2_Witness ==
  /\ pc = "w_done"
  /\ Len(loc.tex_iter) = 2 /\ NameLess(loc.tex_iter[2], loc.tex_iter[1])
  /\ Len(loc.spr_iter) = 2 /\ NameLess(loc.spr_iter[2], loc.spr_iter[1])
  /\ self.textures[loc.tex_iter[1]] # self.textures[loc.tex_iter[2]]

\* a sprite of self whose texture_name is no key of self.textures
SomeTextureMissing ==
  \E n \in DOMAIN self.sprites : self.sprites[n].texture_name \notin DOMAIN self.textures

\* C3: the texture_index written in a sprite's record is the place of the
\* sprite's texture_name among the texture names in ascending order; a
\* sprite whose texture_name is no key of the texture map makes to_writer
\* fail with MissingData.
C3_TextureIndex ==
  /\ pc = "w_done" =>
       /\ Written.err = ""
       /\ \A i \in 1 .. Len(Written.sprites) :
            LET sp == self.sprites[Written.sprite_names[i]]
            IN  /\ sp.texture_name \in DOMAIN self.textures
                /\ Written.sprites[i].texture_index
                     = Rank(DOMAIN self.textures, sp.texture_name)
  /\ InWriter =>
       \A i \in 1 .. Len(loc.indices) :
         loc.indices[i] = Rank(DOMAIN self.textures,
                               self.sprites[loc.sprites[i]].texture_name)
  /\ (SomeTextureMissing
        /\ pc \in {"w_texnames", "w_texname", "w_sprnames", "w_sprname",
                   "w_extras", "w_done", "w_failed"})
       => pc = "w_failed" /\ wres = "MissingData"
  /\ (pc = "w_failed" /\ wres = "MissingData") => SomeTextureMissing

\* to_writer succeeded and wrote a sprite on the second of two textures
C3_Witness ==
  /\ pc = "w_done"
  /\ Len(loc.textures) = 2
  /\ \E i \in 1 .. Len(loc.indices) : loc.indices[i] = 1


\* from_reader has returned on a stream that read_ne could read
ReadDone == pc = "r_done" /\ spr_set.err = ""

\* a texture entry or a sprite whose embedded name is empty, with no
\* database set supplied or none that has a record of its index
UnresolvedEmptyName ==
  \/ \E i \in 0 .. Len(spr_set.tex_sets) - 1 :
       /\ i < Len(spr_set.tex_names)
       /\ spr_set.tex_names[i + 1] = << >>
       /\ (~db.some \/ ~DbFind(db.textures, i).found)
  \/ \E i \in 0 .. Len(spr_set.sprites) - 1 :
       /\ spr_set.sprite_names[i + 1] = << >>
       /\ (~db.some \/ ~DbFind(db.sprites, i).found)

\* C4: when a texture's or a sprite's embedded name is empty and no database
\* set was supplied, or the supplied one has no record of the index,
\* from_reader fails with MissingData; it never returns a SprSet with an
\* entry keyed by the empty name.
C4_EmptyNameFails ==
  ReadDone =>
    /\ UnresolvedEmptyName => parsed.res = "MissingData"
    /\ parsed.res = "Ok" =>
         << >> \notin (DOMAIN parsed.textures) \cup (DOMAIN parsed.sprites)

\* the stream was read, and names, counts and indices are such that only
\* building or decoding a texture can make from_reader fail
OnlyDecodeCanFail ==
  /\ ReadDone
  /\ Len(spr_set.tex_sets) >= 1
  /\ Len(spr_set.tex_names) >= Len(spr_set.tex_sets)
  /\ \A i \in 1 .. Len(spr_set.tex_sets) :
       /\ Len(spr_set.tex_sets[i].mip_map_array) >= 1
       /\ Len(spr_set.tex_sets[i].mip_map_array[1]) >= 1
  /\ \A i \in 1 .. Len(spr_set.sprites) :
       /\ spr_set.sprites[i].texture_index >= 0
       /\ spr_set.sprites[i].texture_index < Len(spr_set.tex_names)
  /\ ~UnresolvedEmptyName
  /\ parsed.res \notin {"Abort", "MemoryCorrupted"}

\* the format code of mip 0 of texture entry i (from 1)
Mip0Format(i) == spr_set.tex_sets[i].mip_map_array[1][1].format

\* the format codes for which the decode path of from_reader yields an image
Decodes(c) ==
  LET dds == NewDxgi(to_dxgi_format(c), 2, 2, 1, 1, 1, FALSE)
  IN  dds.err = "" /\ dds_to_dynamic(dds, << >>).some

\* C5 as claimed: a texture whose mip 0 declares code c decodes for exactly
\* four codes c of the table; for every other code from_reader fails with
\* MissingData.
C5_FourCodes ==
  OnlyDecodeCanFail =>
    /\ parsed.res = "Ok" => Cardinality({ c \in TextureFormatCodes : Decodes(c) }) = 4
    /\ parsed.res # "Ok" => parsed.res = "MissingData"

\* DXT1, DXT1a, DXT5, ATI1, ATI2
DecodableCodes == {6, 7, 9, 10, 11}
\* RGB8, RGB5, RGB5A1, RGBA4, Unknown: the codes to_dxgi_format sends to Unknown
CodesWithoutDxgi == {-1, 1, 3, 4, 5}

\* C5, amended: a texture whose mip 0 declares code c decodes for exactly
\* the five codes 6, 7, 9, 10, 11 (which reach the four block formats BC1,
\* BC3, BC4, BC5); for every other code of the table from_reader fails and
\* returns no image: with the staging container's error for the codes with
\* no DXGI format (-1, 1, 3, 4, 5), with MissingData for the others.
C5_FiveCodes ==
  OnlyDecodeCanFail =>
    /\ parsed.res = "Ok" <=>
         \A i \in 1 .. Len(spr_set.tex_sets) : Mip0Format(i) \in DecodableCodes
    /\ \A i \in 1 .. Len(spr_set.tex_sets) :
         (/\ Mip0Format(i) \notin DecodableCodes
          /\ \A j \in 1 .. i - 1 : Mip0Format(j) \in DecodableCodes)
           => /\ DOMAIN parsed = {"res"}
              /\ parsed.res = IF Mip0Format(i) \in CodesWithoutDxgi THEN "Dds"
                              ELSE "MissingData"

\* from_reader returned an image for a texture of code 7 (DXT1a), the fifth
\* code that decodes
C5_Witness ==
  /\ OnlyDecodeCanFail
  /\ Mip0Format(1) = 7
  /\ parsed.res = "Ok"
  /\ parsed.textures[NameA].width = 2

\* C6: when to_writer returns an error the stream holds no byte written by
\* the call, and when from_reader returns an error it returns no SprSet.
C6_Atomic ==
  /\ pc = "w_failed" => w.buf = << >>
  /\ (pc = "r_done" /\ parsed.res # "Ok") => DOMAIN parsed = {"res"}


\* the containers with one CubeMap entry of 6 faces, laid out with
\* mip_levels / 6 pointers per face
Cube6Inputs == { Container(d) : d \in { e \in CubeContainers : e.texs[1].array_size = 6 } }

\* where the first texture entry of the input lies, and its mip_levels byte
InputEntryAt == U32(input, 4) + U32(input, U32(input, 4) + 12)
InputMipLevels == input[InputEntryAt + 9]

\* from_reader is past read_ne on a container of Cube6Inputs
CubeRead == pc \in {"r_loops", "r_done"} /\ input \in Cube6Inputs

\* the number of mip pointers read for each face of the first texture entry
\* is q
PerFaceRead(q) ==
  /\ spr_set.tex_sets[1].kind = "TexCubeMap"
  /\ Len(spr_set.tex_sets[1].mip_map_array) = 6
  /\ \A f \in 1 .. 6 : Len(spr_set.tex_sets[1].mip_map_array[f]) = q

\* C7 as claimed: a CubeMap entry of 6 faces whose mip_levels is not a
\* multiple of 6, values below 6 included, still parses, and the number of
\* mip pointers read per face is mip_levels / 6 rounded down.
C7_AnyMipLevelsParse ==
  (CubeRead /\ pc = "r_done" /\ InputMipLevels % 6 # 0) =>
    /\ spr_set.err = ""
    /\ PerFaceRead(InputMipLevels \div 6)
    /\ parsed.res = "Ok"

\* C7, amended: for a CubeMap entry of 6 faces and any mip_levels, a multiple
\* of 6 or not, read_ne does not crash and reads mip_levels / 6 (rounded
\* down) mip pointers per face; from_reader then succeeds when mip_levels is
\* at least 6, and fails with MissingData when it is below 6, where every
\* face is left with no mip level.
C7_CubeQuotient ==
  CubeRead =>
    /\ spr_set.err = ""
    /\ PerFaceRead(InputMipLevels \div 6)
    /\ pc = "r_done" =>
         parsed.res = IF InputMipLevels >= 6 THEN "Ok" ELSE "MissingData"

\* a CubeMap entry of 6 faces with mip_levels 7 was read, one pointer per
\* face, and decoded
C7_Witness ==
  /\ CubeRead
  /\ pc = "r_done"
  /\ InputMipLevels = 7
  /\ PerFaceRead(1)
  /\ parsed.res = "Ok"

\* the elements of a sequence
Range(v) == { v[k] : k \in 1 .. Len(v) }

\* the positions of the placeholders to_writer has written so far
PlaceholdersSoFar ==
  IF pc = "w_header" THEN {}
  ELSE {loc.tex_ptr_pos, loc.spr_ptr_pos, loc.tex_names_ptr_pos,
        loc.spr_names_ptr_pos, loc.spr_extra_ptr_pos}
       \cup Range(loc.textures_pos)
       \cup UNION { Range(loc.all_mip_pos[i]) : i \in 1 .. Len(loc.all_mip_pos) }
       \cup Range(loc.texture_names_locs)
       \cup Range(loc.spr_names_locs)

\* the number of writes that landed on position p
TimesPatched(p) == Cardinality({ k \in 1 .. Len(w.log) : w.log[k].at = p })

\* C8: every zero placeholder to_writer emits (five in the header, one per
\* texture entry, one per mip chain, one per texture name, one per sprite
\* name) is overwritten exactly once before a successful return, with a
\* value that is not zero; after each patch the cursor is back at the end
\* of the stream, and no byte outside a placeholder is ever overwritten.
C8_Backpatch ==
  InWriter =>
    /\ w.pos = Len(w.buf)
    /\ \A k \in 1 .. Len(w.log) :
         /\ w.log[k].len = 4
         /\ w.log[k].at \in PlaceholdersSoFar
    /\ \A p \in PlaceholdersSoFar :
         /\ TimesPatched(p) <= 1
         /\ TimesPatched(p) = 0 => U32(w.buf, p) = 0
         /\ TimesPatched(p) = 1 => U32(w.buf, p) > 0
    /\ pc = "w_done" =>
         /\ \A p \in PlaceholdersSoFar : TimesPatched(p) = 1
         /\ Cardinality(PlaceholdersSoFar)
              = 5 + 3 * Len(loc.textures) + Len(loc.sprites)

\* to_writer succeeded on two textures and two sprites: 13 placeholders
C8_Witness ==
  /\ pc = "w_done"
  /\ Len(loc.textures) = 2
  /\ Len(loc.sprites) = 2
  /\ Len(w.log) = 13

\* C9: in a stream to_writer produced, every pointer plus the base the
\* reader applies to it (0 for the header and name pointers, the place of
\* the texture-set magic for texture-entry pointers, the place of the
\* entry's magic for mip pointers) is the position where to_writer put the
\* payload, the pointer lies where the reader reads it, and the payload
\* begins with the magic the reader expects there.
C9_PointerBases ==
  pc = "w_done" =>
    /\ Written.err = ""
    /\ loc.tex_ptr_pos = 4 /\ U32(w.buf, 4) = loc.tex_pos
    /\ Slice(w.buf, loc.tex_pos, 4) = MagicTexSet
    /\ loc.spr_ptr_pos = 16 /\ U32(w.buf, 16) = loc.sprites_pos
    /\ loc.tex_names_ptr_pos = 20 /\ U32(w.buf, 20) = loc.tex_names_pos
    /\ loc.spr_names_ptr_pos = 24 /\ U32(w.buf, 24) = loc.spr_names_pos
    /\ loc.spr_extra_ptr_pos = 28 /\ U32(w.buf, 28) = loc.extras_pos
    /\ \A i \in 1 .. Len(loc.textures) :
         /\ loc.textures_pos[i] = loc.tex_pos + 12 + 4 * (i - 1)
         /\ TexSetOffset(get_position(loc.tex_pos)) + U32(w.buf, loc.textures_pos[i])
              = loc.entries_pos[i]
         /\ Slice(w.buf, loc.entries_pos[i], 4) = MagicTex2d
         /\ \A j \in 1 .. Len(loc.all_mip_pos[i]) :
              /\ loc.all_mip_pos[i][j] = loc.entries_pos[i] + 12 + 4 * (j - 1)
              /\ MipOffset(get_position(loc.entries_pos[i]))
                   + U32(w.buf, loc.all_mip_pos[i][j]) = loc.data_pos[i][j]
              /\ Slice(w.buf, loc.data_pos[i][j], 4) = MagicMipMap
         /\ loc.texture_names_locs[i] = loc.tex_names_pos + 4 * (i - 1)
         /\ U32(w.buf, loc.texture_names_locs[i]) = loc.tex_strs_pos[i]
         /\ NullString(w.buf, loc.tex_strs_pos[i]) = [err |-> "", s |-> loc.textures[i]]
    /\ \A i \in 1 .. Len(loc.sprites) :
         /\ loc.spr_names_locs[i] = loc.spr_names_pos + 4 * (i - 1)
         /\ U32(w.buf, loc.spr_names_locs[i]) = loc.spr_strs_pos[i]
         /\ NullString(w.buf, loc.spr_strs_pos[i]) = [err |-> "", s |-> loc.sprites[i]]

\* to_writer succeeded on two textures and a sprite
C9_Witness ==
  /\ pc = "w_done"
  /\ Len(loc.entries_pos) = 2
  /\ Len(loc.data_pos[2]) = 1
  /\ Len(loc.spr_strs_pos) >= 1

\* C10: from_reader fails whenever the header's tex_sets_count differs from
\* the texture-set block's texture_count: after a successful parse the
\* number of texture entries read is the number of texture names read.
C10_CountsAgree ==
  (ReadDone /\ parsed.res = "Ok") =>
    /\ Len(spr_set.tex_sets) = spr_set.tex_sets_count
    /\ Len(spr_set.tex_sets) = Len(spr_set.tex_names)

\* where texture entry i (from 1) of the input lies
EntryAt(i) ==
  TexSetOffset(get_position(U32(input, 4))) + U32(input, U32(input, 4) + 12 + 4 * (i - 1))

\* read_ne has returned a SprSetReader
ReadOk == pc \in {"r_loops", "r_done"} /\ spr_set.err = ""

\* the number of 4-byte pointer fields the reader consumed after the fixed
\* fields of texture entry t
PointerFields(t) == SumLen(t.mip_map_array, Len(t.mip_map_array))

\* the containers of LayerContainers, as bytes
LayerInputs == { Container(d) : d \in LayerContainers }

\* C11 as claimed: the reader consumes exactly array_size pointer fields
\* directly after the fixed fields of a texture entry (each the pointer to
\* a mip chain).
C11_ArraySizePointers ==
  ReadOk =>
    \A i \in 1 .. Len(spr_set.tex_sets) :
      PointerFields(spr_set.tex_sets[i]) = spr_set.tex_sets[i].array_size

\* C11, amended: the fixed fields of a texture entry are followed in line by
\* array_size mip chains of mip_levels pointer fields each (mip_levels /
\* array_size each for a CubeMap), every field pointing straight at a mip
\* level record, relative to the entry's magic: one level of indirection.
\* The reader consumes exactly array_size * mip_levels pointer fields after
\* the fixed fields and accepts that layout; the writer, which writes
\* mip_levels 1, emits the same layout.
C11_InlinePointers ==
  /\ (pc \in {"r_loops", "r_done"} /\ input \in LayerInputs) => spr_set.err = ""
  /\ ReadOk =>
       \A i \in 1 .. Len(spr_set.tex_sets) :
         LET t == spr_set.tex_sets[i]
             at == EntryAt(i)
             levels == IF t.kind = "Tex2d" THEN t.mip_levels
                       ELSE t.mip_levels \div t.array_size
         IN  /\ Len(t.mip_map_array) = t.array_size
             /\ PointerFields(t) = t.array_size * levels
             /\ \A f \in 1 .. t.array_size :
                  /\ Len(t.mip_map_array[f]) = levels
                  /\ \A k \in 1 .. levels :
                       LET field == at + 12 + 4 * (levels * (f - 1) + (k - 1))
                           q == MipOffset(get_position(at)) + U32(input, field)
                       IN  /\ Slice(input, q, 4) = MagicMipMap
                           /\ t.mip_map_array[f][k] = TexMipMapReader(input, q)
  /\ pc = "w_done" =>
       /\ Written.err = ""
       /\ \A i \in 1 .. Len(loc.textures) :
            LET t == Written.tex_sets[i]
            IN  /\ t.mip_levels = 1
                /\ Len(loc.all_mip_pos[i]) = t.array_size * t.mip_levels
                /\ PointerFields(t) = Len(loc.all_mip_pos[i])
                /\ \A j \in 1 .. Len(loc.all_mip_pos[i]) :
                     /\ loc.all_mip_pos[i][j] = loc.entries_pos[i] + 12 + 4 * (j - 1)
                     /\ t.mip_map_array[j][1]
                          = TexMipMapReader(w.buf, loc.entries_pos[i]
                                                     + U32(w.buf, loc.all_mip_pos[i][j]))

\* a Plane entry of two layers and two mip levels was read: four pointer
\* fields in line
C11_Witness ==
  /\ ReadOk
  /\ input \in LayerInputs
  /\ spr_set.tex_sets[1].array_size = 2
  /\ spr_set.tex_sets[1].mip_levels = 2
  /\ PointerFields(spr_set.tex_sets[1]) = 4

\* the staging container from_reader allocates for texture entry t
StagingOf(t) ==
  NewDxgi(to_dxgi_format(t.mip_map_array[1][1].format),
          t.mip_map_array[1][1].width, t.mip_map_array[1][1].height,
          t.depth, t.mip_maps, t.array_size, t.kind = "TexCubeMap")

\* texture entry i (from 1) reaches the copy loop: the entries before it
\* were built, its name resolves, it has a mip level 0 and new_dxgi accepts
\* its parameters
Staged(i) ==
  /\ \A j \in 0 .. i - 2 : TextureStep(spr_set, db, j).err = ""
  /\ TextureName(spr_set, db, i - 1).err = ""
  /\ Len(spr_set.tex_sets[i].mip_map_array) >= 1
  /\ Len(spr_set.tex_sets[i].mip_map_array[1]) >= 1
  /\ StagingOf(spr_set.tex_sets[i]).err = ""

\* C12: for every texture from_reader stages, the bytes copied into a layer
\* of the staging container (the data of mip 0 of that layer) are no more
\* than the layer holds, so the unchecked copy never writes past it.
C12_CopyFits ==
  /\ ReadOk =>
       \A i \in 1 .. Len(spr_set.tex_sets) :
         Staged(i) =>
           \A f \in 1 .. Len(spr_set.tex_sets[i].mip_map_array) :
             Len(spr_set.tex_sets[i].mip_map_array[f][1].data)
               <= StagingOf(spr_set.tex_sets[i]).layer_size
  /\ pc = "r_done" => parsed.res \notin {"Abort", "MemoryCorrupted"}

\* C13: from_reader is total: on every input it returns a SprSet or an
\* error value; a CubeMap entry whose array_size byte is 0 gives an error,
\* not a division-by-zero panic.
C13_Total ==
  /\ pc \in {"r_loops", "r_done"} => spr_set.err # "Panic"
  /\ pc = "r_done" =>
       parsed.res \in {"Ok", "Io", "BinRead", "NulError", "Dds", "MissingData"}

\* C14: after a successful parse (here: one in which no empty name was left
\* unresolved) the texture map has as many entries as texture entries were
\* read and the sprite map has sprite_count entries: no entry is dropped or
\* replaced when two entries resolve to the same name.
C14_MapSizes ==
  (ReadDone /\ parsed.res = "Ok" /\ ~UnresolvedEmptyName) =>
    /\ Cardinality(DOMAIN parsed.textures) = Len(spr_set.tex_sets)
    /\ Cardinality(DOMAIN parsed.sprites) = spr_set.sprite_count

=============================================================================
